---- MODULE Spec2Model ----
(***************************************************************************)
(* A model of the natural-language-to-SQL assistant:                       *)
(*   src/assistant/app/services/llm.py       yandex_gpt_query,             *)
(*                                           natural_language_to_sql       *)
(*   src/assistant/app/services/database.py  execute_sql_query,            *)
(*                                           build_dbml_schema, map_type   *)
(*                                                                         *)
(* TEXT.  A Python str is modelled as a sequence of tokens.  Every token   *)
(* is the literal piece of text it stands for and the str is the           *)
(* concatenation of its tokens: <<"{", "\"", "sql", "\"", ":", "1", "}">>  *)
(* is the text {"sql":1}.  The tokens are chosen so that the regular       *)
(* expressions and the JSON grammar the code uses never split a token and  *)
(* never match across two tokens, except where the operators below say so  *)
(* (the fence is the two tokens "'''" and "json"):                         *)
(*    " "  "\n"        whitespace (the newline is a control character      *)
(*                     inside a JSON string)                               *)
(*    "{" "}" ":" ","  JSON punctuation         ";"  statement end         *)
(*    "\""             a double quote           "\\\""  the escape \"      *)
(*    "sql" "error_description" "x" "json"  words without an SQL keyword   *)
(*    "1"              a digit                  "null"  the JSON literal   *)
(*    "SELECT" "select" "Update" ...  an SQL keyword in some letter case   *)
(*    "'''"            a Markdown fence: three backticks, which a TLA+      *)
(*                     string cannot hold                                  *)
(* Fixed messages of the code are single tokens; the text of a caught      *)
(* exception, str(e), is the token "<exception name>".                     *)
(***************************************************************************)
EXTENDS Integers, Sequences, FiniteSets, TLC

\* ------------------------------------------------------------------ bounds
MaxFreeLen == 4
MaxPad == 1
MaxNameLen == 2
MaxTables == 2
MaxTypeLen == 2
MaxRows == 2

\* ------------------------------------------------------- str primitives
Whitespace == {" ", "\n"}

IsSpace(c) == c \in Whitespace

\* The number of consecutive whitespace tokens of s starting at index p.
RECURSIVE SpaceRun(_, _)
SpaceRun(s, p) ==
    IF p <= Len(s) /\ IsSpace(s[p]) THEN 1 + SpaceRun(s, p + 1) ELSE 0

\* str.strip(): leading and trailing whitespace removed.
strip(s) ==
    LET keep == {i \in 1..Len(s) : ~IsSpace(s[i])}
    IN  IF keep = {} THEN <<>>
        ELSE LET lo == CHOOSE i \in keep : \A j \in keep : i <= j
                 hi == CHOOSE i \in keep : \A j \in keep : j <= i
             IN  SubSeq(s, lo, hi)

\* s[1:-1]: the first and the last character dropped.
slice_1_m1(s) == SubSeq(s, 2, Len(s) - 1)

\* The least element of a non-empty set of integers, 0 for the empty set.
MinOr0(S) == IF S = {} THEN 0 ELSE CHOOSE i \in S : \A j \in S : i <= j

\* --------------------------------------- re.sub(r"```json\s*|\s*```", "")
\* The index of the last token of the match that starts at p, 0 for no match.
\* The first alternative is tried first; \s* is greedy and what follows it
\* cannot match a whitespace, so no backtracking shortens it.
FenceMatchEnd(s, p) ==
    IF s[p] = "'''" /\ p + 1 <= Len(s) /\ s[p + 1] = "json"
    THEN p + 1 + SpaceRun(s, p + 2)
    ELSE LET k == SpaceRun(s, p)
         IN  IF p + k <= Len(s) /\ s[p + k] = "'''" THEN p + k ELSE 0

RECURSIVE fence_sub(_, _)
fence_sub(s, p) ==
    IF p > Len(s) THEN <<>>
    ELSE LET m == FenceMatchEnd(s, p)
         IN  IF m = 0 THEN <<s[p]>> \o fence_sub(s, p + 1)
             ELSE fence_sub(s, m + 1)

\* cleaned_text
re_sub_fence(s) == fence_sub(s, 1)

\* ------------- re.search(r"\{[^{}]*\{[^{}]*\}[^{}]*\}|\{[^{}]*\}", ...)
IsBrace(c) == c \in {"{", "}"}

\* The index of the first brace after index i, 0 when there is none.
NextBrace(s, i) == MinOr0({j \in (i + 1)..Len(s) : IsBrace(s[j])})

\* The index of the last token of the match that starts at i, 0 for no match.
\* [^{}]* runs to the next brace, so each alternative fixes the braces that
\* follow i: "{", "}", "}" for the nested shape, "}" for the flat one.
CandidateEnd(s, i) ==
    IF s[i] # "{" THEN 0
    ELSE LET j1 == NextBrace(s, i)
             j2 == IF j1 = 0 THEN 0 ELSE NextBrace(s, j1)
             j3 == IF j2 = 0 THEN 0 ELSE NextBrace(s, j2)
         IN  IF j1 = 0 THEN 0
             ELSE IF s[j1] = "}" THEN j1
             ELSE IF j2 # 0 /\ s[j2] = "}" /\ j3 # 0 /\ s[j3] = "}" THEN j3
             ELSE 0

\* json_match: the leftmost match, [found |-> FALSE] for None.
json_search(s) ==
    LET i == MinOr0({k \in 1..Len(s) : CandidateEnd(s, k) # 0})
    IN  IF i = 0 THEN [found |-> FALSE, group |-> <<>>]
        ELSE [found |-> TRUE, group |-> SubSeq(s, i, CandidateEnd(s, i))]

\* ---- re.search(r"(SELECT|INSERT|UPDATE|DELETE|CREATE|ALTER|DROP).*?;",
\*                answer_text, re.IGNORECASE | re.DOTALL)
SqlKeywords == {"SELECT", "INSERT", "UPDATE", "DELETE", "CREATE", "ALTER", "DROP"}

\* The upper-case spelling of a token (the keyword tokens of the model that
\* are not upper case already; every other token holds no keyword).
UpperTok(c) ==
    CASE c = "select" -> "SELECT"
      [] c = "Update" -> "UPDATE"
      [] c = "drop" -> "DROP"
      [] OTHER -> c

\* re.IGNORECASE: the token spells a keyword in any letter case.
IsKeyword(c) == UpperTok(c) \in SqlKeywords

\* sql_search with the rightmost keyword taken in place of the leftmost.
sql_search_rightmost(s) ==
    LET ks == {k \in 1..Len(s) : IsKeyword(s[k]) /\ \E m \in (k + 1)..Len(s) : s[m] = ";"}
        i == IF ks = {} THEN 0 ELSE CHOOSE k \in ks : \A m \in ks : m <= k
        j == IF i = 0 THEN 0 ELSE MinOr0({k \in (i + 1)..Len(s) : s[k] = ";"})
    IN  IF j = 0 THEN [found |-> FALSE, group |-> <<>>]
        ELSE [found |-> TRUE, group |-> SubSeq(s, i, j)]

\* sql_match: from the leftmost keyword to the first ";" after it (.*? is
\* lazy, re.DOTALL lets it cross a newline), [found |-> FALSE] for None.
sql_search(s) ==
    LET i == MinOr0({k \in 1..Len(s) : IsKeyword(s[k])})
        j == IF i = 0 THEN 0 ELSE MinOr0({k \in (i + 1)..Len(s) : s[k] = ";"})
    IN  IF j = 0 THEN [found |-> FALSE, group |-> <<>>]
        ELSE [found |-> TRUE, group |-> SubSeq(s, i, j)]

\* ------------------------------------------------------------- json.loads
\* A parsed JSON value: t is its type ("str", "num", "null", "obj") and v its
\* content: the tokens of a string, the digits of a number, the members of
\* an object as a sequence of [k |-> key tokens, v |-> value], <<>> for null.
JStr(toks) == [t |-> "str", v |-> toks]
JNum(digits) == [t |-> "num", v |-> digits]
JNull == [t |-> "null", v |-> <<>>]
JObj(members) == [t |-> "obj", v |-> members]

\* What a parsing step yields: the value and the index after it, or ok = FALSE
\* for json.JSONDecodeError.
Parsed(val, next) == [ok |-> TRUE, val |-> val, next |-> next]
DecodeError == [ok |-> FALSE, val |-> JNull, next |-> 0]

\* The index of the first token at or after p that is not JSON whitespace.
skip_ws(c, p) == p + SpaceRun(c, p)

\* The escape \" stands for a double quote; every other token for itself.
Unescape(toks) ==
    [i \in 1..Len(toks) |-> IF toks[i] = "\\\"" THEN "\"" ELSE toks[i]]

\* A string literal whose opening quote is at p: it ends at the next quote
\* token, and a control character inside it is an error.
parse_string(c, p) ==
    LET j == MinOr0({k \in (p + 1)..Len(c) : c[k] = "\""})
    IN  IF j = 0 THEN DecodeError
        ELSE IF \E k \in (p + 1)..(j - 1) : c[k] = "\n" THEN DecodeError
        ELSE Parsed(JStr(Unescape(SubSeq(c, p + 1, j - 1))), j + 1)

\* The number of consecutive digit tokens of c starting at p ("1" is the
\* model's only digit, so every run of digits is a number).
RECURSIVE DigitRun(_, _)
DigitRun(c, p) ==
    IF p <= Len(c) /\ c[p] = "1" THEN 1 + DigitRun(c, p + 1) ELSE 0

RECURSIVE parse_value(_, _)
RECURSIVE parse_members(_, _, _)

\* The object whose "{" is at p.
parse_object(c, p) ==
    LET q == skip_ws(c, p + 1)
    IN  IF q <= Len(c) /\ c[q] = "}" THEN Parsed(JObj(<<>>), q + 1)
        ELSE parse_members(c, q, <<>>)

\* The members of an object from the key expected at p on; acc holds the
\* members read so far.
parse_members(c, p, acc) ==
    IF p > Len(c) \/ c[p] # "\"" THEN DecodeError
    ELSE LET key == parse_string(c, p)
         IN  IF ~key.ok THEN DecodeError
             ELSE LET q == skip_ws(c, key.next)
                  IN  IF q > Len(c) \/ c[q] # ":" THEN DecodeError
                      ELSE LET val == parse_value(c, skip_ws(c, q + 1))
                           IN  IF ~val.ok THEN DecodeError
                               ELSE LET r == skip_ws(c, val.next)
                                        all == Append(acc, [k |-> key.val.v, v |-> val.val])
                                    IN  IF r > Len(c) THEN DecodeError
                                        ELSE IF c[r] = "}" THEN Parsed(JObj(all), r + 1)
                                        ELSE IF c[r] = ","
                                             THEN parse_members(c, skip_ws(c, r + 1), all)
                                        ELSE DecodeError

parse_value(c, p) ==
    IF p > Len(c) THEN DecodeError
    ELSE IF c[p] = "\"" THEN parse_string(c, p)
    ELSE IF c[p] = "{" THEN parse_object(c, p)
    ELSE IF c[p] = "null" THEN Parsed(JNull, p + 1)
    ELSE IF c[p] = "1" THEN Parsed(JNum(SubSeq(c, p, p + DigitRun(c, p) - 1)), p + DigitRun(c, p))
    ELSE DecodeError

\* json.loads(json_str): one value, whitespace around it, nothing after it.
json_loads(c) ==
    LET val == parse_value(c, skip_ws(c, 1))
    IN  IF ~val.ok THEN DecodeError
        ELSE IF skip_ws(c, val.next) # Len(c) + 1 THEN DecodeError
        ELSE val

\* key in result
HasKey(obj, key) == \E i \in 1..Len(obj.v) : obj.v[i].k = key

\* result[key]: a repeated key keeps its last value.
GetKey(obj, key) ==
    LET i == CHOOSE i \in 1..Len(obj.v) :
                 /\ obj.v[i].k = key
                 /\ \A j \in (i + 1)..Len(obj.v) : obj.v[j].k # key
    IN  obj.v[i].v

\* Python's truth value of a parsed value: an empty string, None, an empty
\* dict and the number 0 are false.
Truthy(val) ==
    CASE val.t = "str" -> val.v # <<>>
      [] val.t = "num" -> \E i \in 1..Len(val.v) : val.v[i] # "0"
      [] val.t = "obj" -> val.v # <<>>
      [] OTHER -> FALSE

\* --------------------------------------------------------- call outcomes
\* What a call of a Python function ends with: the value it returns, or the
\* exception that leaves it.
Returned(value) == [raised |-> "none", value |-> value]
Raised(exception) == [raised |-> exception, value |-> [none |-> TRUE]]

\* The value None.
PyNone == [none |-> TRUE]

\* ----------------------------------------------------- yandex_gpt_query
\* os.getenv of a variable that is not set.
EnvUnset == "<unset>"

\* not API_KEY, not FOLDER_ID: None and the empty string are false.
EnvMissing(value) == value \in {EnvUnset, ""}

ModelResult(status, answer, error) ==
    [status |-> status, answer |-> answer, error |-> error]

\* error_detail of a response whose status is not 200: the body's
\* error.message, "Unknown error" when the body has none, and when the body
\* is no JSON object of that shape response.text or, for an empty body,
\* "HTTP <status>".
error_detail(http) ==
    CASE http.body = "error_message" -> "<error.message>"
      [] http.body = "no_error_message" -> "Unknown error"
      [] http.body = "not_json" -> "<response.text>"
      [] OTHER -> "HTTP " \o ToString(http.status_code)

\* read_answer with the answer text trimmed.
read_answer_stripped(http) == ModelResult("success", strip(http.text), <<>>)

\* A 200 response whose body has the answer path: the text is returned as it
\* is.
read_answer(http) == ModelResult("success", http.text, <<>>)

\* The part of yandex_gpt_query after the configuration is read and found
\* complete: the request and the reading of the response.  http is what the
\* endpoint does with the request.
post_and_read(http) ==
    CASE http.kind = "RequestException" ->
             ModelResult("failure", <<>>, <<"Request failed: ", "<RequestException>">>)
      [] http.kind = "Exception" ->
             ModelResult("failure", <<>>, <<"Unexpected error: ", "<Exception>">>)
      [] http.kind = "response" /\ http.status_code = 200 ->
             IF http.body = "answer"
             THEN read_answer(http)
             ELSE IF http.body = "not_json"
             THEN ModelResult("failure", <<>>, <<"Request failed: ", "<JSONDecodeError>">>)
             ELSE ModelResult("failure", <<>>,
                              <<"Unexpected response format: ", "<KeyError>">>)
      [] OTHER ->
             ModelResult("failure", <<>>,
                         <<"API request failed with status ",
                           ToString(http.status_code), ": ", error_detail(http)>>)

\* missing_variable with the two checks in the other order.
missing_variable_folder_first(env) ==
    IF EnvMissing(env.YANDEX_FOLDER_ID) THEN "YANDEX_FOLDER_ID"
    ELSE IF EnvMissing(env.YANDEX_API_KEY) THEN "YANDEX_API_KEY"
    ELSE "none"

\* The configuration check: the first missing variable ends the call.
missing_variable(env) ==
    IF EnvMissing(env.YANDEX_API_KEY) THEN "YANDEX_API_KEY"
    ELSE IF EnvMissing(env.YANDEX_FOLDER_ID) THEN "YANDEX_FOLDER_ID"
    ELSE "none"

\* yandex_gpt_query(user_query): the dict it returns and the requests it
\* posts (the user message of each).
yandex_gpt_query(user_query, env, http) ==
    IF missing_variable(env) # "none"
    THEN [result |-> ModelResult("failure", <<>>,
                                 <<"Missing environment variable: ", missing_variable(env)>>),
          posted |-> <<>>]
    ELSE [result |-> post_and_read(http), posted |-> <<user_query>>]

\* ------------------------------------------------------- generate_prompt
generate_prompt(user_query, schema_data) ==
    [system_prompt |-> <<"<system prompt: role>">> \o schema_data
                       \o <<"<system prompt: notes, rules, examples>">>,
     prompt |-> <<"User's request: ">> \o user_query \o <<"<answer format>">>]

\* ------------------------------------------------ natural_language_to_sql
TranslationResult(status, sql, error_description, raw_response) ==
    [status |-> status, sql |-> sql, error_description |-> error_description,
     raw_response |-> raw_response]

\* result[key].strip() if result[key] else "": a value that is true and is
\* no str has no strip and raises AttributeError.
field_strip(val) ==
    IF ~Truthy(val) THEN Returned(<<>>)
    ELSE IF val.t = "str" THEN Returned(strip(val.v))
    ELSE Raised("AttributeError")

\* The quotes around sql_query dropped when it starts and ends with one.
unquote(sql_query) ==
    IF sql_query # <<>> /\ Head(sql_query) = "\"" /\ sql_query[Len(sql_query)] = "\""
    THEN slice_1_m1(sql_query)
    ELSE sql_query

\* decide without the fixed message for an empty error_desc.
decide_without_message(sql_query, error_desc, answer_text) ==
    IF sql_query # <<>> /\ error_desc = <<>>
    THEN TranslationResult("success", sql_query, <<>>, answer_text)
    ELSE TranslationResult("failure", <<>>, error_desc, answer_text)

\* decide with a non-empty sql_query taking precedence over error_desc.
decide_sql_first(sql_query, error_desc, answer_text) ==
    IF sql_query # <<>>
    THEN TranslationResult("success", sql_query, <<>>, answer_text)
    ELSE TranslationResult("failure", <<>>,
                           IF error_desc # <<>> THEN error_desc
                           ELSE <<"LLM couldn't generate SQL query">>,
                           answer_text)

\* The decision between the two fields of the parsed object.
decide(sql_query, error_desc, answer_text) ==
    IF sql_query # <<>> /\ error_desc = <<>>
    THEN TranslationResult("success", sql_query, <<>>, answer_text)
    ELSE TranslationResult("failure", <<>>,
                           IF error_desc # <<>> THEN error_desc
                           ELSE <<"LLM couldn't generate SQL query">>,
                           answer_text)

\* The branch taken when the parsed object has both keys.
json_branch(result, answer_text) ==
    LET sql == field_strip(GetKey(result, <<"sql">>))
        err == field_strip(GetKey(result, <<"error_description">>))
    IN  IF sql.raised # "none" THEN Raised(sql.raised)
        ELSE IF err.raised # "none" THEN Raised(err.raised)
        ELSE Returned(decide(unquote(sql.value), err.value, answer_text))

\* The statement search in answer_text, with the message of the failure
\* that is returned when it finds nothing.
sql_fallback(answer_text, message) ==
    LET sql_match == sql_search(answer_text)
    IN  IF sql_match.found
        THEN TranslationResult("success", strip(sql_match.group), <<>>, answer_text)
        ELSE TranslationResult("failure", <<>>, message, answer_text)

\* has_both_keys with the second key misnamed.
has_both_keys_misnamed(result) ==
    HasKey(result, <<"sql">>) /\ HasKey(result, <<"error">>)

\* Whether the object has the two keys.
has_both_keys(result) ==
    HasKey(result, <<"sql">>) /\ HasKey(result, <<"error_description">>)

\* The body of the try statement.
try_body(answer_text) ==
    LET cleaned_text == re_sub_fence(answer_text)
        json_match == json_search(cleaned_text)
        result == json_loads(json_match.group)
    IN  IF json_match.found /\ ~result.ok THEN Raised("JSONDecodeError")
        ELSE IF json_match.found /\ has_both_keys(result.val)
        THEN json_branch(result.val, answer_text)
        ELSE Returned(sql_fallback(answer_text, <<"Failed to parse model response.">>))

\* except json.JSONDecodeError
except_JSONDecodeError(answer_text) ==
    Returned(sql_fallback(answer_text,
                          <<"Failed to parse model response: ", "<JSONDecodeError>">>))

\* except_Exception left out: the exception leaves the function.
except_Exception_reraised(exception, answer_text) == Raised(exception)

\* except Exception
except_Exception(exception, answer_text) ==
    Returned(TranslationResult("failure", <<>>,
                               <<"Unexpected error processing LLM response: ",
                                 "<" \o exception \o ">">>,
                               answer_text))

\* The parsing of the model's answer: the try statement with its handlers.
parse_answer(answer_text) ==
    LET body == try_body(answer_text)
    IN  IF body.raised = "none" THEN body
        ELSE IF body.raised = "JSONDecodeError" THEN except_JSONDecodeError(answer_text)
        ELSE except_Exception(body.raised, answer_text)

\* answer_text_of without the strip.
answer_text_untrimmed(llm_response) == llm_response.answer

\* The answer text the parser works on, and raw_response.
answer_text_of(llm_response) == strip(llm_response.answer)

\* natural_language_to_sql(user_query, schema_data, debug_mode): how the call
\* ends and the requests it posts.  In debug mode the function prints the
\* fixture and ends without a return statement.
natural_language_to_sql(user_query, schema_data, debug_mode, env, http) ==
    IF debug_mode THEN [outcome |-> Returned(PyNone), posted |-> <<>>]
    ELSE LET prompts == generate_prompt(user_query, schema_data)
             combined_prompt == prompts.system_prompt \o <<"\n", "\n">> \o prompts.prompt
             call == yandex_gpt_query(combined_prompt, env, http)
             llm_response == call.result
         IN  IF llm_response.status = "failure"
             THEN [outcome |-> Returned(TranslationResult(
                                   "failure", <<>>,
                                   <<"LLM API error: ">> \o llm_response.error, <<>>)),
                   posted |-> call.posted]
             ELSE [outcome |-> parse_answer(answer_text_of(llm_response)),
                   posted |-> call.posted]

\* ---------------------------------------------------- execute_sql_query
\* The connection settings, in the order of env_vars.
PgVariables ==
    <<"PG_STUDENT_HOST", "PG_STUDENT_PORT", "PG_STUDENT_DBNAME", "PG_STUDENT_USER",
      "PG_STUDENT_PASSWORD">>

\* [name for name, value in env_vars.items() if not value]
RECURSIVE missing_from(_, _)
missing_from(pg_env, i) ==
    IF i > Len(PgVariables) THEN <<>>
    ELSE (IF EnvMissing(pg_env[PgVariables[i]]) THEN <<PgVariables[i]>> ELSE <<>>)
         \o missing_from(pg_env, i + 1)

\* ", ".join(names)
RECURSIVE join(_, _)
join(sep, parts) ==
    IF parts = <<>> THEN <<>>
    ELSE IF Len(parts) = 1 THEN Head(parts)
    ELSE Head(parts) \o sep \o join(sep, Tail(parts))

QueryResult(kind, rows, error) == [kind |-> kind, rows |-> rows, error |-> error]

\* int(port): the values of PG_STUDENT_PORT that int() reads as a number in
\* base 10 (digits, with an optional sign, with whitespace around them, with
\* single underscores between digits); for every other value int() raises
\* ValueError.
IntLiterals == {"5432", " 5432\n", "+5_432", "0"}
int_parses(port) == port \in IntLiterals

\* str(e) of that ValueError: the message and repr(port).
int_error(port) == <<"invalid literal for int() with base 10: ", "'", port, "'">>

\* execute_sql_query(sql_query): {"result": DataFrame, "error": None}, kind
\* "result" with the rows, or {"result": None, "error": message}, kind
\* "error"; and the queries it sent to the database.  Inside the try the
\* port is converted with int() before the connection is opened, so a port
\* that is no number ends the call before anything is sent.  db is what the
\* database does with the query: it fails, or it answers with rows.
execute_sql_query(sql_query, pg_env, db) ==
    LET missing == missing_from(pg_env, 1)
    IN  IF missing # <<>>
        THEN [result |-> QueryResult("error", <<>>,
                                     <<"Missing environment variables: ">>
                                     \o join(<<", ">>, [i \in 1..Len(missing) |-> <<missing[i]>>])),
              sent |-> <<>>]
        ELSE IF ~int_parses(pg_env["PG_STUDENT_PORT"])
        THEN [result |-> QueryResult("error", <<>>, int_error(pg_env["PG_STUDENT_PORT"])),
              sent |-> <<>>]
        ELSE IF db.kind = "connect_error"
        THEN [result |-> QueryResult("error", <<>>, <<"<connect error>">>), sent |-> <<>>]
        ELSE IF db.kind = "query_error"
        THEN [result |-> QueryResult("error", <<>>, <<"<query error>">>),
              sent |-> <<sql_query>>]
        ELSE [result |-> QueryResult("result", db.rows, <<>>), sent |-> <<sql_query>>]

\* ---------------------------------------------------- build_dbml_schema
\* A table name is a sequence of characters.  str.isalnum(): the characters
\* of the model that are letters or digits ("é" is a letter outside ASCII).
AlnumChars == {"a", "Z", "7", "é"}

isalnum(s) == s # <<>> /\ \A i \in 1..Len(s) : s[i] \in AlnumChars

\* str.replace(old, ""), old one character.
remove_char(s, old) == SelectSeq(s, LAMBDA c : c # old)

\* name_is_safe as a test of every character against the class.
name_is_safe_by_class(name) ==
    \A i \in 1..Len(name) : name[i] \in AlnumChars \cup {"_", "-"}

\* The check of one configured name.
name_is_safe(name) == isalnum(remove_char(remove_char(name, "_"), "-"))

\* str.lower() of a type token: the tokens of the model that have upper-case
\* letters; every other token is lower case already.
LowerTok(c) ==
    CASE c = "INTEGER" -> "integer"
      [] c = "Integer" -> "integer"
      [] c = "DOUBLE" -> "double"
      [] c = "PRECISION" -> "precision"
      [] c = "Boolean" -> "boolean"
      [] c = "NUMERIC" -> "numeric"
      [] c = "TEXT" -> "text"
      [] c = "ARRAY" -> "array"
      [] c = "USER-DEFINED" -> "user-defined"
      [] OTHER -> c

lower(s) == [i \in 1..Len(s) |-> LowerTok(s[i])]

\* map_type without pg_type.lower().
map_type_case_sensitive(pg_type) ==
    CASE pg_type = <<"double", " ", "precision">> -> <<"double">>
      [] pg_type = <<"integer">> -> <<"int">>
      [] pg_type = <<"character", " ", "varying">> -> <<"varchar">>
      [] pg_type = <<"timestamp", " ", "without", " ", "time", " ", "zone">> -> <<"timestamp">>
      [] pg_type = <<"timestamp", " ", "with", " ", "time", " ", "zone">> -> <<"timestamptz">>
      [] pg_type = <<"boolean">> -> <<"bool">>
      [] pg_type = <<"numeric">> \/ pg_type = <<"decimal">> -> <<"decimal">>
      [] OTHER -> pg_type

\* map_type(pg_type); a type is a sequence of words and spaces.
map_type(pg_type) ==
    LET t == lower(pg_type)
    IN  CASE t = <<"double", " ", "precision">> -> <<"double">>
          [] t = <<"integer">> -> <<"int">>
          [] t = <<"character", " ", "varying">> -> <<"varchar">>
          [] t = <<"timestamp", " ", "without", " ", "time", " ", "zone">> -> <<"timestamp">>
          [] t = <<"timestamp", " ", "with", " ", "time", " ", "zone">> -> <<"timestamptz">>
          [] t = <<"boolean">> -> <<"bool">>
          [] t = <<"bigint">> -> <<"bigint">>
          [] t = <<"smallint">> -> <<"smallint">>
          [] t = <<"numeric">> \/ t = <<"decimal">> -> <<"decimal">>
          [] OTHER -> t

\* The lines of the schema for the rows from index i on; current_table is
\* [name |-> the table of the open block] or [none |-> TRUE] at the start.
RECURSIVE dbml_lines(_, _, _, _)
dbml_lines(rows, i, open, current_table) ==
    IF i > Len(rows) THEN (IF open THEN <<(<<"}">>)>> ELSE <<>>)
    ELSE LET row == rows[i]
             column_line == <<"  ">> \o row.column_name \o <<" ">> \o map_type(row.data_type)
         IN  IF open /\ row.table_name = current_table
             THEN <<column_line>> \o dbml_lines(rows, i + 1, TRUE, current_table)
             ELSE (IF open THEN <<(<<"}">>)>> ELSE <<>>)
                  \o <<(<<"Table ">> \o row.table_name \o <<" {">>), column_line>>
                  \o dbml_lines(rows, i + 1, TRUE, row.table_name)

\* The index of the first configured name that fails the check, 0 for none.
first_unsafe(table_names) ==
    MinOr0({i \in 1..Len(table_names) : ~name_is_safe(table_names[i])})

\* The catalog query for the names.
catalog_query(safe_table_names) ==
    <<"<SELECT ... AND table_name IN ('">>
    \o join(<<"', '">>, safe_table_names) \o <<"') ORDER BY ...>">>

\* build_dbml_schema(): how the call ends (the schema text returned, or the
\* exception raised with its message) and the queries it sent.
build_dbml_schema(table_names, pg_env, db) ==
    IF table_names = <<>> THEN [outcome |-> Returned(<<>>), message |-> <<>>, sent |-> <<>>]
    ELSE IF first_unsafe(table_names) # 0
    THEN [outcome |-> Raised("ValueError"),
          message |-> <<"Invalid table name: ">> \o table_names[first_unsafe(table_names)],
          sent |-> <<>>]
    ELSE LET call == execute_sql_query(catalog_query(table_names), pg_env, db)
         IN  IF call.result.kind = "error"
             THEN [outcome |-> Raised("RuntimeError"),
                   message |-> <<"Failed to fetch schema: ">> \o call.result.error,
                   sent |-> call.sent]
             ELSE [outcome |-> Returned(join(<<"\n">>,
                                             dbml_lines(call.result.rows, 1, FALSE, <<>>))),
                   message |-> <<>>, sent |-> call.sent]

\* ------------------------------------------------------------ the inputs
\* Every text of at most MaxFreeLen of these tokens.
FreeTokens == {" ", "{", "}", ";", "SELECT", "x"}
FreeTexts == UNION {[1..n -> FreeTokens] : n \in 0..MaxFreeLen}

\* n spaces.
Pad(n) == [i \in 1..n |-> " "]
Pads == {Pad(n) : n \in 0..MaxPad}

Q == "\""
EQ == "\\\""

\* JSON texts for the value of "sql": strings (empty, blank, a statement,
\* padded, wrapped in one and in two pairs of quotes, a lone quote, with a
\* newline inside, unterminated), null, a number, objects, a bare word.
SqlValues ==
    { <<Q, Q>>,
      <<Q, " ", Q>>,
      <<Q, "SELECT", " ", "1", ";", Q>>,
      <<Q, " ", "select", " ", "x", " ", Q>>,
      <<Q, EQ, "SELECT", ";", EQ, Q>>,
      <<Q, EQ, EQ, "SELECT", ";", EQ, EQ, Q>>,
      <<Q, EQ, Q>>,
      <<Q, EQ, EQ, Q>>,
      <<Q, "SELECT", "\n", "x", ";", Q>>,
      <<Q, "SELECT", ";">>,
      <<"null">>,
      <<"1">>,
      <<"{", "}">>,
      <<"{", Q, "x", Q, ":", "1", "}">>,
      <<"x">> }

\* JSON texts for the value of "error_description".
ErrValues ==
    { <<Q, Q>>, <<Q, " ", Q>>, <<Q, "x", Q>>, <<Q, " ", "x", ";", " ", Q>>,
      <<"null">>, <<"1", "1">>, <<"{", "}">>, <<"x">> }

Member(key, value) == <<Q, key, Q, ":", " ">> \o value

\* The object {"sql": sv, "error_description": ev}.
Object2(sv, ev) ==
    <<"{">> \o Member("sql", sv) \o <<",", " ">>
            \o Member("error_description", ev) \o <<"}">>

\* The answers that are one object with both keys, padded with whitespace.
DecisionTexts ==
    {l \o Object2(sv, ev) \o r : l \in Pads, r \in Pads, sv \in SqlValues, ev \in ErrValues}

SqlText == <<Q, "SELECT", " ", "1", Q>>
SqlTextSemi == <<Q, "SELECT", " ", "1", ";", Q>>

\* Objects and object-like texts: with both keys (the sql without and with
\* its ";"), with one, with neither,
\* with a key twice, with a nested object, and malformed ones.
Bodies ==
    { <<>>,
      Object2(SqlText, <<Q, Q>>),
      Object2(SqlText, <<Q, "x", Q>>),
      Object2(SqlTextSemi, <<Q, Q>>),
      Object2(SqlTextSemi, <<Q, "x", Q>>),
      Object2(<<Q, Q>>, <<Q, "x", Q>>),
      Object2(<<"1">>, <<Q, Q>>),
      <<"{">> \o Member("sql", SqlText) \o <<"}">>,
      <<"{">> \o Member("error_description", <<Q, "x", Q>>) \o <<"}">>,
      <<"{">> \o Member("x", <<"1">>) \o <<"}">>,
      <<"{", " ", "}">>,
      <<"{">> \o Member("error_description", <<Q, Q>>) \o <<",">>
              \o Member("sql", <<Q, Q>>) \o <<",">>
              \o Member("sql", SqlText) \o <<"}">>,
      <<"{">> \o Member("x", <<"{", Q, "x", Q, ":", "null", "}">>) \o <<",">>
              \o Member("sql", SqlText) \o <<",">>
              \o Member("error_description", <<Q, Q>>) \o <<"}">>,
      <<"{", Q, "sql", Q, " ">> \o SqlText \o <<"}">>,
      <<"{">> \o Member("sql", SqlText) \o <<",", "}">>,
      <<"{", Q, "sql", Q, ":", "x", "}">> }

\* What the model writes before and after the object.
Prefixes ==
    { <<>>, <<"x", " ">>, <<"Update", "x", " ">>, <<"{", "x", "}", " ">>,
      <<"SELECT", " ", "x", ";", " ">> }
Suffixes ==
    { <<>>, <<" ", "x">>, <<" ", "SELECT", " ", "x", ";">>,
      <<"\n", "select", "\n", "x", ";", "\n">>, <<" ", "drop", " ", "x">>, <<";">> }

\* The body as it is, and inside a Markdown fence.
Fenced(body) == {body, <<"'''", "json", "\n">> \o body \o <<"\n", "'''">>}

ProseTexts ==
    {pre \o f \o post : pre \in Prefixes, f \in UNION {Fenced(b) : b \in Bodies},
                        post \in Suffixes}

\* The answer texts of the model.
Texts == FreeTexts \cup DecisionTexts \cup ProseTexts

\* The values of a configuration variable: not set, empty, set.
EnvValues == {EnvUnset, "", "key"}
Envs == [YANDEX_API_KEY : EnvValues, YANDEX_FOLDER_ID : EnvValues]
CompleteEnv == [YANDEX_API_KEY |-> "key", YANDEX_FOLDER_ID |-> "key"]

\* What the endpoint does with a request: requests.post raises, or a
\* response arrives with a status and a body (body "answer": JSON with the
\* answer path and the text; "no_answer": JSON without it; "not_json";
\* "error_message", "no_error_message": JSON with and without
\* error.message; "empty").
Response(status_code, body, text) ==
    [kind |-> "response", status_code |-> status_code, body |-> body, text |-> text]
Failing(kind) == [kind |-> kind, status_code |-> 0, body |-> "empty", text |-> <<>>]

BasicHttps ==
    {Failing("RequestException"), Failing("Exception")}
    \cup {Response(200, b, <<>>) : b \in {"no_answer", "not_json"}}
    \cup {Response(c, b, <<>>) : c \in {400, 500},
              b \in {"error_message", "no_error_message", "not_json", "empty"}}
    \cup {Response(200, "answer", t) : t \in {<<>>, <<" ">>, <<"x">>}}
TextHttps == {Response(200, "answer", t) : t \in Texts}

\* A call's inputs: the configuration and the endpoint's behaviour.  Every
\* configuration meets every behaviour of BasicHttps, the complete
\* configuration meets every answer text.
Inputs ==
    {[env |-> e, http |-> h] : e \in Envs, h \in BasicHttps}
    \cup {[env |-> CompleteEnv, http |-> h] : h \in TextHttps}

\* The configured table names: every single name of at most MaxNameLen
\* characters, and every list of at most MaxTables names of at most one
\* character.
NameChars == {"a", "Z", "7", "_", "-", "'", "é"}
Names == UNION {[1..n -> NameChars] : n \in 0..MaxNameLen}
ShortNames == UNION {[1..n -> NameChars] : n \in 0..1}
TableLists ==
    {<<name>> : name \in Names} \cup UNION {[1..k -> ShortNames] : k \in 0..MaxTables}

\* The catalog's type texts: the keys of map_type's table, some of them in
\* other letter cases, and every text of at most MaxTypeLen of TypeTokens.
TypeTokens == {"integer", "INTEGER", "text", "TEXT", " ", "double", "precision", "ARRAY"}
MappedTypes ==
    { <<"double", " ", "precision">>, <<"integer">>, <<"character", " ", "varying">>,
      <<"timestamp", " ", "without", " ", "time", " ", "zone">>,
      <<"timestamp", " ", "with", " ", "time", " ", "zone">>,
      <<"boolean">>, <<"bigint">>, <<"smallint">>, <<"numeric">>, <<"decimal">> }
Types ==
    MappedTypes
    \cup {<<"DOUBLE", " ", "PRECISION">>, <<"Integer">>, <<"Boolean">>, <<"NUMERIC">>,
          <<"USER-DEFINED">>, <<"timestamp">>}
    \cup UNION {[1..n -> TypeTokens] : n \in 0..MaxTypeLen}

Row(table_name, column_name, data_type) ==
    [table_name |-> table_name, column_name |-> column_name, data_type |-> data_type]

\* The rows the catalog answers with: one column of every type, and every
\* list of at most MaxRows of SomeRows in the order of the table names (the
\* query's ORDER BY).
SomeRows ==
    { Row(<<"a">>, <<"c">>, <<"integer">>), Row(<<"a">>, <<"d">>, <<"TEXT">>),
      Row(<<"a", "7">>, <<"c">>, <<"double", " ", "precision">>) }
TableOrder(rows) ==
    \A i \in 1..(Len(rows) - 1) : ~(rows[i].table_name = <<"a", "7">> /\ rows[i + 1].table_name = <<"a">>)
RowLists ==
    {<<Row(<<"a">>, <<"c">>, t)>> : t \in Types}
    \cup {rows \in UNION {[1..n -> SomeRows] : n \in 0..MaxRows} : TableOrder(rows)}

\* What the database does with a query.
Db(kind, rows) == [kind |-> kind, rows |-> rows]
OneRow == <<Row(<<"a">>, <<"c">>, <<"integer">>)>>
BasicDbs == {Db("connect_error", <<>>), Db("query_error", <<>>), Db("rows", <<>>), Db("rows", OneRow)}

\* The connection settings: complete, and with settings unset or empty.
CompletePgEnv ==
    [v \in {PgVariables[i] : i \in 1..Len(PgVariables)} |->
        IF v = "PG_STUDENT_PORT" THEN "5432" ELSE "value"]
PgEnvs ==
    { CompletePgEnv,
      [CompletePgEnv EXCEPT !["PG_STUDENT_PORT"] = " 5432\n"],
      [CompletePgEnv EXCEPT !["PG_STUDENT_PORT"] = "+5_432"],
      [CompletePgEnv EXCEPT !["PG_STUDENT_PORT"] = "value"],
      [CompletePgEnv EXCEPT !["PG_STUDENT_PORT"] = "54x"],
      [CompletePgEnv EXCEPT !["PG_STUDENT_PORT"] = "5 432"],
      [CompletePgEnv EXCEPT !["PG_STUDENT_PORT"] = ""],
      [CompletePgEnv EXCEPT !["PG_STUDENT_HOST"] = EnvUnset, !["PG_STUDENT_PASSWORD"] = EnvUnset],
      [v \in DOMAIN CompletePgEnv |-> EnvUnset] }

DbInputs ==
    {[tables |-> t, pg_env |-> CompletePgEnv, db |-> d] : t \in TableLists, d \in BasicDbs}
    \cup {[tables |-> t, pg_env |-> CompletePgEnv, db |-> Db("rows", r)] :
              t \in {<<(<<"a">>)>>, <<(<<"a">>), (<<"a", "7">>)>>}, r \in RowLists}
    \cup {[tables |-> <<(<<"a">>)>>, pg_env |-> e, db |-> d] : e \in PgEnvs, d \in BasicDbs}

UserQuery == <<"<question>">>
SchemaData == <<"<schema>">>

\* ------------------------------------------------------ the state machine
VARIABLES
    env,          \* the process environment: YANDEX_API_KEY, YANDEX_FOLDER_ID
    http,         \* what the completion endpoint does with a request
    op,           \* the last call: "none" or the function's name
    debug_mode,   \* the debug_mode argument of the last natural_language_to_sql
    model_result, \* what the last yandex_gpt_query returned
    translation,  \* how the last natural_language_to_sql ended
    posted,       \* the requests the last call posted to the endpoint
    tables,       \* the configured table names (TABLES)
    pg_env,       \* the process environment: the connection settings
    db,           \* what the database does with a query
    query_result, \* what the last execute_sql_query returned
    schema,       \* how the last build_dbml_schema ended
    sent          \* the queries the last call sent to the database

llm_vars == <<env, http, debug_mode, model_result, translation, posted>>
db_vars == <<tables, pg_env, db, query_result, schema, sent>>
vars == <<op, llm_vars, db_vars>>

NoModelResult == ModelResult("none", <<>>, <<>>)
NoTranslation == Returned(TranslationResult("none", <<>>, <<>>, <<>>))
NoQueryResult == QueryResult("none", <<>>, <<>>)
NoSchema == [outcome |-> Returned(<<>>), message |-> <<>>, sent |-> <<>>]

\* No call has been made.
NoCalls ==
    /\ op = "none"
    /\ debug_mode = FALSE
    /\ model_result = NoModelResult
    /\ translation = NoTranslation
    /\ posted = <<>>
    /\ query_result = NoQueryResult
    /\ schema = NoSchema
    /\ sent = <<>>

LlmDefaults == env = CompleteEnv /\ http = Failing("RequestException")
DbDefaults == tables = <<>> /\ pg_env = CompletePgEnv /\ db = Db("rows", <<>>)

\* The translation pipeline on every input of Inputs.
Init ==
    /\ \E in \in Inputs : env = in.env /\ http = in.http
    /\ DbDefaults
    /\ NoCalls

\* A caller calls yandex_gpt_query.
CallYandexGptQuery ==
    LET call == yandex_gpt_query(UserQuery, env, http)
    IN  /\ op' = "yandex_gpt_query"
        /\ model_result' = call.result
        /\ posted' = call.posted
        /\ translation' = NoTranslation
        /\ debug_mode' = FALSE
        /\ UNCHANGED <<env, http, db_vars>>

\* A caller calls natural_language_to_sql.
CallNaturalLanguageToSql ==
    \E debug \in BOOLEAN :
        LET call == natural_language_to_sql(UserQuery, SchemaData, debug, env, http)
        IN  /\ op' = "natural_language_to_sql"
            /\ debug_mode' = debug
            /\ translation' = call.outcome
            /\ posted' = call.posted
            /\ model_result' = NoModelResult
            /\ UNCHANGED <<env, http, db_vars>>

Next == CallYandexGptQuery \/ CallNaturalLanguageToSql

Spec == Init /\ [][Next]_vars

\* The schema introspection on every input of DbInputs.
InitDB ==
    /\ \E in \in DbInputs : tables = in.tables /\ pg_env = in.pg_env /\ db = in.db
    /\ LlmDefaults
    /\ NoCalls

\* A caller calls execute_sql_query.
CallExecuteSqlQuery ==
    LET call == execute_sql_query(<<"<query>">>, pg_env, db)
    IN  /\ op' = "execute_sql_query"
        /\ query_result' = call.result
        /\ sent' = call.sent
        /\ schema' = NoSchema
        /\ UNCHANGED <<tables, pg_env, db, llm_vars>>

\* A caller calls build_dbml_schema.
CallBuildDbmlSchema ==
    LET call == build_dbml_schema(tables, pg_env, db)
    IN  /\ op' = "build_dbml_schema"
        /\ schema' = [outcome |-> call.outcome, message |-> call.message, sent |-> call.sent]
        /\ sent' = call.sent
        /\ query_result' = NoQueryResult
        /\ UNCHANGED <<tables, pg_env, db, llm_vars>>

NextDB == CallExecuteSqlQuery \/ CallBuildDbmlSchema

SpecDB == InitDB /\ [][NextDB]_vars

\* ------------------------------------------------------------- the claims
\* What the claims speak of, read from the state.

\* natural_language_to_sql was called with debug_mode off and has returned.
Translated == op = "natural_language_to_sql" /\ ~debug_mode /\ translation.raised = "none"

\* The two configuration values that are absent or empty.
MissingValues ==
    {v \in {"YANDEX_API_KEY", "YANDEX_FOLDER_ID"} : env[v] = EnvUnset \/ env[v] = ""}

\* The endpoint hands an answer text to the caller.
AnswerArrives ==
    /\ MissingValues = {}
    /\ http.kind = "response" /\ http.status_code = 200 /\ http.body = "answer"

\* The answer text was handed to the response parser.
ParsedAnswer == Translated /\ AnswerArrives

\* The JSON candidate of the answer and what it parses to.
Candidate == json_search(re_sub_fence(strip(http.text)))
CandidateValue == json_loads(Candidate.group)

\* The candidate parses to an object with both keys.
BothKeys ==
    /\ Candidate.found /\ CandidateValue.ok
    /\ HasKey(CandidateValue.val, <<"sql">>)
    /\ HasKey(CandidateValue.val, <<"error_description">>)

\* A field's value is text, or one of the values Python takes for false
\* (null, an empty object, the number 0), which the code reads as the empty
\* text.
IsTextual(val) ==
    \/ val.t = "str" \/ val.t = "null"
    \/ (val.t = "obj" /\ val.v = <<>>)
    \/ (val.t = "num" /\ \A i \in 1..Len(val.v) : val.v[i] = "0")
TextOf(val) == IF val.t = "str" THEN val.v ELSE <<>>

\* s: sql trimmed, and without its first and last character when it starts
\* and ends with a double quote.  e: error_description trimmed.
FieldS ==
    LET t == strip(TextOf(GetKey(CandidateValue.val, <<"sql">>)))
    IN  IF t # <<>> /\ t[1] = Q /\ t[Len(t)] = Q THEN SubSeq(t, 2, Len(t) - 1) ELSE t
FieldE == strip(TextOf(GetKey(CandidateValue.val, <<"error_description">>)))

TextualFields ==
    /\ IsTextual(GetKey(CandidateValue.val, <<"sql">>))
    /\ IsTextual(GetKey(CandidateValue.val, <<"error_description">>))

\* C1: every result of natural_language_to_sql with debug_mode off has
\* exactly one of sql and error_description non-empty: a success has a
\* non-empty sql and an empty error_description, a failure an empty sql and
\* a non-empty error_description, whatever the model client returned.
C1_ExactlyOneOfSqlAndError ==
    Translated =>
        LET r == translation.value
        IN  /\ r.status \in {"success", "failure"}
            /\ r.status = "success" => r.sql # <<>> /\ r.error_description = <<>>
            /\ r.status = "failure" => r.sql = <<>> /\ r.error_description # <<>>

\* An answer whose two fields are both empty is a failure with a message.
C1_Witness ==
    /\ ParsedAnswer /\ BothKeys /\ TextualFields
    /\ FieldS = <<>> /\ FieldE = <<>>
    /\ translation.value.status = "failure"
    /\ translation.value.error_description = <<"LLM couldn't generate SQL query">>

\* s as the claim words it: sql trimmed, and without the pair of double
\* quotes that wraps it (a lone quote is no pair).
ClaimedS ==
    LET t == strip(TextOf(GetKey(CandidateValue.val, <<"sql">>)))
    IN  IF Len(t) >= 2 /\ t[1] = Q /\ t[Len(t)] = Q THEN SubSeq(t, 2, Len(t) - 1) ELSE t

\* C2 as claimed: when the candidate parses to an object with both keys,
\* whatever their values, a non-empty e makes the result a failure with
\* error_description e; and with s the trimmed sql without its wrapping
\* pair of quotes, the result is success with sql = s exactly when s is
\* non-empty and e is empty, and otherwise failure with e, or with the fixed
\* message when e is empty.
C2_DecisionRuleAsClaimed ==
    (ParsedAnswer /\ BothKeys) =>
        LET r == translation.value
        IN  /\ (GetKey(CandidateValue.val, <<"error_description">>).t = "str" /\ FieldE # <<>>) =>
                   r.status = "failure" /\ r.error_description = FieldE
            /\ TextualFields =>
                   /\ (r.status = "success") <=> (ClaimedS # <<>> /\ FieldE = <<>>)
                   /\ r.status = "success" => r.sql = ClaimedS /\ r.error_description = <<>>
                   /\ r.status # "success" =>
                          /\ r.status = "failure" /\ r.sql = <<>>
                          /\ r.error_description =
                                 IF FieldE # <<>> THEN FieldE
                                 ELSE <<"LLM couldn't generate SQL query">>

\* C2 as amended: when the candidate parses to an object with both keys and
\* both values are text (or a value Python takes for false, read as the
\* empty text), with s the trimmed sql, without its first and last character
\* when it starts and ends with a double quote (a lone quote becomes empty),
\* and e the trimmed error_description, the result is success with sql = s
\* exactly when s is non-empty and e is empty, and otherwise failure with
\* error_description e, or the fixed message when e is empty; s and e both
\* non-empty is a failure with e.  When a value is true and is no text, the
\* result is the failure "Unexpected error processing LLM response: ...",
\* whatever e is.
C2_DecisionRuleOnTextValues ==
    (ParsedAnswer /\ BothKeys) =>
        LET r == translation.value
        IN  /\ TextualFields =>
                   /\ (r.status = "success") <=> (FieldS # <<>> /\ FieldE = <<>>)
                   /\ r.status = "success" => r.sql = FieldS /\ r.error_description = <<>>
                   /\ r.status # "success" =>
                          /\ r.status = "failure" /\ r.sql = <<>>
                          /\ r.error_description =
                                 IF FieldE # <<>> THEN FieldE
                                 ELSE <<"LLM couldn't generate SQL query">>
            /\ ~TextualFields =>
                   /\ r.status = "failure" /\ r.sql = <<>>
                   /\ r.error_description # <<>>
                   /\ r.error_description[1] = "Unexpected error processing LLM response: "

\* Both fields non-empty: a failure that carries e.
C2_Witness ==
    /\ ParsedAnswer /\ BothKeys /\ TextualFields
    /\ FieldS # <<>> /\ FieldE # <<>>
    /\ translation.value.status = "failure"
    /\ translation.value.error_description = FieldE

\* C3 as claimed: raw_response is the answer text exactly as the model client
\* returned it, leading and trailing whitespace included.
C3_RawResponseUntrimmed ==
    ParsedAnswer => translation.value.raw_response = http.text

\* C3 as amended: raw_response is the answer text the model client returned
\* with its leading and trailing whitespace removed, whichever stage resolved
\* the answer.
C3_RawResponseIsTrimmedAnswer ==
    ParsedAnswer =>
        LET raw == translation.value.raw_response
            lead == CHOOSE n \in 0..Len(http.text) :
                        /\ \A i \in 1..n : http.text[i] \in Whitespace
                        /\ n < Len(http.text) => http.text[n + 1] \notin Whitespace
        IN  /\ lead + Len(raw) <= Len(http.text)
            /\ \A i \in 1..Len(raw) : raw[i] = http.text[lead + i]
            /\ \A i \in (lead + Len(raw) + 1)..Len(http.text) : http.text[i] \in Whitespace
            /\ raw # <<>> => raw[Len(raw)] \notin Whitespace

\* An answer with whitespace around a JSON object that resolves to success.
C3_Witness ==
    /\ ParsedAnswer /\ BothKeys
    /\ http.text # <<>> /\ http.text[1] = " " /\ http.text[Len(http.text)] = " "
    /\ translation.value.status = "success"
    /\ Len(translation.value.raw_response) = Len(http.text) - 2

\* The configuration values an error message names.
NamedIn(error) ==
    {v \in {"YANDEX_API_KEY", "YANDEX_FOLDER_ID"} : \E i \in 1..Len(error) : error[i] = v}

\* C4 as claimed: with a configuration value missing yandex_gpt_query fails
\* without a network call and its message names exactly the missing values,
\* both when both are missing.
C4_NamesExactlyMissing ==
    (op = "yandex_gpt_query" /\ MissingValues # {}) =>
        /\ model_result.status = "failure"
        /\ posted = <<>>
        /\ NamedIn(model_result.error) = MissingValues

\* C4 as amended: with a configuration value missing yandex_gpt_query fails
\* without a network call and its message names one missing value: the API
\* key whenever it is missing (also when the folder identifier is missing
\* too), the folder identifier when only it is missing.
C4_NamesFirstMissing ==
    (op = "yandex_gpt_query" /\ MissingValues # {}) =>
        /\ model_result.status = "failure"
        /\ model_result.answer = <<>>
        /\ posted = <<>>
        /\ NamedIn(model_result.error) =
               IF "YANDEX_API_KEY" \in MissingValues THEN {"YANDEX_API_KEY"}
               ELSE {"YANDEX_FOLDER_ID"}

\* Both values missing: the message names the API key alone.
C4_Witness ==
    /\ op = "yandex_gpt_query"
    /\ MissingValues = {"YANDEX_API_KEY", "YANDEX_FOLDER_ID"}
    /\ posted = <<>>
    /\ NamedIn(model_result.error) = {"YANDEX_API_KEY"}

\* C5 as claimed: a ModelResult has a non-empty answer if and only if its
\* status is success.
C5_AnswerNonEmptyIffSuccess ==
    op = "yandex_gpt_query" =>
        ((model_result.answer # <<>>) <=> (model_result.status = "success"))

\* C5 as amended: a ModelResult with a non-empty answer has status success,
\* a failure has an empty answer and a non-empty error, and a success has an
\* empty error and the endpoint's answer text as it came, which may be the
\* empty string: a 200 response with an empty answer text is a success with
\* an empty answer.
C5_AnswerOnlyOnSuccess ==
    op = "yandex_gpt_query" =>
        /\ model_result.status \in {"success", "failure"}
        /\ model_result.answer # <<>> => model_result.status = "success"
        /\ model_result.status = "failure" =>
               model_result.answer = <<>> /\ model_result.error # <<>>
        /\ model_result.status = "success" =>
               AnswerArrives /\ model_result.answer = http.text /\ model_result.error = <<>>
        /\ AnswerArrives => model_result.status = "success"

\* A 200 response whose answer text is empty: success with an empty answer.
C5_Witness ==
    /\ op = "yandex_gpt_query" /\ AnswerArrives /\ http.text = <<>>
    /\ model_result.status = "success" /\ model_result.answer = <<>>

\* C6: natural_language_to_sql with debug_mode off returns, for every answer
\* text, a result with the four fields status, sql, error_description and
\* raw_response; no exception leaves it.
C6_ParserTotal ==
    (op = "natural_language_to_sql" /\ ~debug_mode) =>
        /\ translation.raised = "none"
        /\ DOMAIN translation.value = {"status", "sql", "error_description", "raw_response"}
        /\ translation.value.status \in {"success", "failure"}

\* An object whose sql is a number: str.strip is missing, and the call still
\* returns a failure.
C6_Witness ==
    /\ ParsedAnswer /\ BothKeys
    /\ GetKey(CandidateValue.val, <<"sql">>).t = "num"
    /\ translation.value.status = "failure"
    /\ translation.value.error_description[1] = "Unexpected error processing LLM response: "

\* The trimmed answer text, in which the fallback searches.
Answer == strip(http.text)

\* The keyword tokens of the model, in any letter case.
KeywordTokens == SqlKeywords \cup {"select", "Update", "drop"}

\* The span of the answer from its first keyword to the first ";" after
\* it; <<>> when the answer has no keyword with a ";" after it.
FirstKeywordSpan ==
    LET ks == {i \in 1..Len(Answer) :
                   Answer[i] \in KeywordTokens /\ \E m \in (i + 1)..Len(Answer) : Answer[m] = ";"}
    IN  IF ks = {} THEN <<>>
        ELSE LET k == CHOOSE i \in ks : \A j \in ks : i <= j
                 e == CHOOSE m \in (k + 1)..Len(Answer) :
                          Answer[m] = ";" /\ \A n \in (k + 1)..(m - 1) : Answer[n] # ";"
             IN  SubSeq(Answer, k, e)

\* The places <<i, j>> of the well-formed JSON objects embedded in the
\* answer that have sql set to a non-empty value.
ObjectsWithSql ==
    {p \in (1..Len(Answer)) \X (1..Len(Answer)) :
        /\ p[1] < p[2] /\ Answer[p[1]] = "{" /\ Answer[p[2]] = "}"
        /\ LET o == json_loads(SubSeq(Answer, p[1], p[2]))
           IN  /\ o.ok
               /\ HasKey(o.val, <<"sql">>)
               /\ Truthy(GetKey(o.val, <<"sql">>))}

\* An SQL statement ending in ";" lies after index j of the answer.
StatementAfter(j) ==
    \E k \in (j + 1)..Len(Answer) :
        Answer[k] \in KeywordTokens /\ \E m \in (k + 1)..Len(Answer) : Answer[m] = ";"

\* C8 as claimed: an answer with a well-formed embedded JSON object that has
\* sql set to a non-empty value, and with an SQL statement ending in ";"
\* after that object, is decided by the JSON branch: the returned sql is
\* never the text of the keyword-to-";" search, and the fallback's failure
\* is not returned.
C8_JsonBranchWins ==
    (ParsedAnswer /\ \E p \in ObjectsWithSql : StatementAfter(p[2])) =>
        ~(translation.value.status = "success" /\ translation.value.sql = FirstKeywordSpan)

\* The candidate lies in the answer with an SQL statement after it.
StatementAfterCandidate ==
    \E i \in 1..Len(Answer) :
        LET j == i + Len(Candidate.group) - 1
        IN  j <= Len(Answer) /\ SubSeq(Answer, i, j) = Candidate.group /\ StatementAfter(j)

\* The candidate parses to an object that has sql set to a non-empty value
\* and no key error_description.
SqlKeyOnly ==
    /\ Candidate.found /\ CandidateValue.ok
    /\ HasKey(CandidateValue.val, <<"sql">>)
    /\ Truthy(GetKey(CandidateValue.val, <<"sql">>))
    /\ ~HasKey(CandidateValue.val, <<"error_description">>)

\* C8 as amended: when the first JSON-shaped candidate of the answer is a
\* well-formed object with both keys sql and error_description, their values
\* text and sql non-empty, and an SQL statement ending in ";" lies after it,
\* the JSON branch decides: success with the object's sql when
\* error_description is empty, failure with the object's error_description
\* and no sql otherwise; the statement after the object does not decide the
\* result.  When the candidate has sql set and no key error_description, the
\* JSON branch is not taken: the result is the success of the statement
\* search, with the text from the first keyword of the answer to the first
\* ";" after it.
C8_FirstCandidateWithBothKeysWins ==
    (ParsedAnswer /\ StatementAfterCandidate) =>
        LET r == translation.value
        IN  /\ (BothKeys /\ TextualFields /\ FieldS # <<>>) =>
                   /\ FirstKeywordSpan # <<>>
                   /\ FieldE = <<>> => r.status = "success" /\ r.sql = FieldS
                   /\ FieldE # <<>> =>
                          r.status = "failure" /\ r.sql = <<>> /\ r.error_description = FieldE
            /\ SqlKeyOnly =>
                   /\ FirstKeywordSpan # <<>>
                   /\ r.status = "success" /\ r.sql = FirstKeywordSpan

\* The object's sql is a statement with its ";" and a statement follows the
\* object: the object's sql is returned, and it is also the text the
\* statement search would match.
C8_Witness ==
    /\ ParsedAnswer /\ BothKeys /\ TextualFields /\ FieldS # <<>> /\ StatementAfterCandidate
    /\ translation.value.status = "success"
    /\ translation.value.sql = FieldS
    /\ FieldS = FirstKeywordSpan
    /\ Answer[Len(Answer)] = ";" /\ Answer[Len(Answer) - 1] = "x"

\* The answer ends with a statement SELECT ... ; and TrailingSelect is the
\* index of its SELECT: the last SELECT of the answer, with no ";" and no
\* brace between it and the answer's last token, which is ";".
IsSelect(c) == c \in {"SELECT", "select"}
TrailingSelect ==
    LET ss == {i \in 1..Len(Answer) : IsSelect(Answer[i])}
    IN  IF ss = {} \/ Answer[Len(Answer)] # ";" THEN 0
        ELSE LET k == CHOOSE i \in ss : \A j \in ss : j <= i
             IN  IF \A m \in (k + 1)..(Len(Answer) - 1) : Answer[m] \notin {";", "{", "}"}
                 THEN k ELSE 0
TrailingStatement == SubSeq(Answer, TrailingSelect, Len(Answer))

\* The candidate of the answer fails to parse and the answer ends with a
\* statement SELECT ... ;
MalformedWithTrailingSelect ==
    ParsedAnswer /\ Candidate.found /\ ~CandidateValue.ok /\ Answer # <<>> /\ TrailingSelect # 0

\* C9 as claimed: when the candidate fails to parse and the text has a
\* trailing statement SELECT ... ;, the result is success with sql equal to
\* that trailing statement.
C9_FallbackReturnsTrailingStatement ==
    MalformedWithTrailingSelect =>
        /\ translation.value.status = "success"
        /\ translation.value.sql = TrailingStatement

\* C9 as amended: when the candidate fails to parse and the text has a
\* trailing statement SELECT ... ;, the result is success with sql equal to
\* the span from the first keyword of the trimmed answer (any of the seven,
\* in any letter case, wherever it stands) to the first ";" after it; that
\* is the trailing statement when no keyword stands before the trailing
\* SELECT.
C9_FallbackReturnsFirstKeywordSpan ==
    MalformedWithTrailingSelect =>
        LET r == translation.value
        IN  /\ r.status = "success" /\ r.error_description = <<>>
            /\ r.sql = FirstKeywordSpan
            /\ (\A i \in 1..(TrailingSelect - 1) : Answer[i] \notin KeywordTokens)
                   => r.sql = TrailingStatement

\* A keyword inside the malformed candidate: sql starts there, not at the
\* trailing statement.
C9_Witness ==
    /\ MalformedWithTrailingSelect
    /\ translation.value.status = "success"
    /\ translation.value.sql # TrailingStatement
    /\ Len(translation.value.sql) > Len(TrailingStatement)

\* build_dbml_schema was called with a non-empty list of names.
SchemaBuilt == op = "build_dbml_schema" /\ tables # <<>>

\* Every character of the name is one of [A-Za-z0-9_-].
AsciiNameChars == {"a", "Z", "7", "_", "-"}
InAsciiClass(name) == \A i \in 1..Len(name) : name[i] \in AsciiNameChars

\* C7 as claimed: build_dbml_schema raises the invalid-table-name error,
\* with no catalog query sent, exactly when some configured name has a
\* character outside [A-Za-z0-9_-]; it accepts every name made of those
\* characters only, names made only of "_" and "-" included.
C7_RejectsExactlyOutsideClass ==
    SchemaBuilt =>
        ((schema.outcome.raised = "ValueError")
             <=> (\E i \in 1..Len(tables) : ~InAsciiClass(tables[i])))

\* The name without "_" and "-" is empty or has a character that is no
\* letter and no digit (letters outside ASCII are letters).
LettersAndDigits == {"a", "Z", "7", "é"}
Rejected(name) ==
    LET core == {i \in 1..Len(name) : name[i] \notin {"_", "-"}}
    IN  core = {} \/ \E i \in core : name[i] \notin LettersAndDigits

\* C7 as amended: build_dbml_schema raises the invalid-table-name error,
\* with no catalog query sent, exactly when some configured name, with its
\* "_" and "-" removed, is empty or has a character that is not a letter or
\* a digit; so it rejects the empty name and the names made only of "_" and
\* "-", and accepts a name with a letter outside ASCII.  The error names the
\* first such name.
C7_RejectsBySanitizedAlnum ==
    SchemaBuilt =>
        LET bad == {i \in 1..Len(tables) : Rejected(tables[i])}
        IN  /\ (schema.outcome.raised = "ValueError") <=> (bad # {})
            /\ bad # {} =>
                   /\ sent = <<>>
                   /\ schema.message = <<"Invalid table name: ">>
                          \o tables[CHOOSE i \in bad : \A j \in bad : i <= j]

\* A name made only of "_" and "-" is rejected before any query.
C7_Witness ==
    /\ SchemaBuilt
    /\ \E i \in 1..Len(tables) :
           /\ tables[i] # <<>> /\ \A k \in 1..Len(tables[i]) : tables[i][k] \in {"_", "-"}
           /\ \A j \in 1..Len(tables) : j # i => ~Rejected(tables[j])
    /\ schema.outcome.raised = "ValueError"
    /\ sent = <<>>

\* The catalog answered with one column and the schema text was returned.
OneColumn ==
    /\ op = "build_dbml_schema" /\ schema.outcome.raised = "none"
    /\ db.kind = "rows" /\ Len(db.rows) = 1 /\ tables # <<>>

\* The schema text of one column whose type is written as dtype.
OneColumnSchema(row, dtype) ==
    <<"Table ">> \o row.table_name \o <<" {", "\n", "  ">> \o row.column_name
    \o <<" ">> \o dtype \o <<"\n", "}">>

\* The fixed map: the spelling each of its type strings is mapped to.
TargetSpelling(t) ==
    CASE t = <<"double", " ", "precision">> -> <<"double">>
      [] t = <<"integer">> -> <<"int">>
      [] t = <<"character", " ", "varying">> -> <<"varchar">>
      [] t = <<"timestamp", " ", "without", " ", "time", " ", "zone">> -> <<"timestamp">>
      [] t = <<"timestamp", " ", "with", " ", "time", " ", "zone">> -> <<"timestamptz">>
      [] t = <<"boolean">> -> <<"bool">>
      [] t = <<"numeric">> -> <<"decimal">>
      [] OTHER -> t

\* C10 as claimed: every type string of the fixed map is written as its
\* target spelling and every other type string unchanged, its letter case
\* included.
C10_UnmappedTypesUnchanged ==
    OneColumn =>
        schema.outcome.value =
            OneColumnSchema(db.rows[1],
                            IF db.rows[1].data_type \in MappedTypes
                            THEN TargetSpelling(db.rows[1].data_type)
                            ELSE db.rows[1].data_type)

\* C10 as amended: every type string whose lower-case form is in the fixed
\* map is written as that entry's target spelling, and every other type
\* string is written in lower case: unchanged only when it has no upper-case
\* letter.
C10_TypesMappedInLowerCase ==
    OneColumn =>
        LET t == db.rows[1].data_type
            low == [i \in 1..Len(t) |-> LowerTok(t[i])]
        IN  /\ schema.outcome.value = OneColumnSchema(db.rows[1], TargetSpelling(low))
            /\ t \in MappedTypes \/ low \notin MappedTypes =>
                   schema.outcome.value =
                       OneColumnSchema(db.rows[1], IF t \in MappedTypes THEN TargetSpelling(t) ELSE low)

\* An upper-case type that is not in the map comes back in lower case.
C10_Witness ==
    /\ OneColumn
    /\ db.rows[1].data_type = <<"TEXT">>
    /\ schema.outcome.value = OneColumnSchema(db.rows[1], <<"text">>)
====
